---- MODULE Spec2Model ----
(***************************************************************************)
(* Model of the Perkin Elmer 200 Series pump driver (src/perkinelmer.py):  *)
(* class LC200Q, its command executor cmd, the status parsers, the method  *)
(* uploader _method with its reset-and-retry, and the encoders.            *)
(*                                                                         *)
(* Python strings are sequences of one-character strings, so that slicing  *)
(* (i[0], i[1:]), concatenation, strip and split are computed, not assumed.*)
(***************************************************************************)
EXTENDS Integers, Sequences, FiniteSets, TLC

(* ------------------------------ bounds --------------------------------- *)
\* longest caller step list tried (one more than the 10 the pump accepts)
MaxSteps == 11
\* most lines the serial input buffer holds
MaxBuf == 2

(* ------------------------- string primitives --------------------------- *)
Whitespace == {" ", "\n", "\r", "\t"}
DigitChars == <<"0","1","2","3","4","5","6","7","8","9">>
EOL == <<"\n">>

RECURSIVE LStrip(_)
LStrip(s) == IF s # <<>> /\ Head(s) \in Whitespace THEN LStrip(Tail(s)) ELSE s

RECURSIVE RStrip(_)
RStrip(s) ==
    IF s # <<>> /\ s[Len(s)] \in Whitespace
    THEN RStrip(SubSeq(s, 1, Len(s) - 1))
    ELSE s

Strip(s) == LStrip(RStrip(s))

\* str.split(sep): the fields between the separators, at least one field
RECURSIVE SplitFrom(_, _, _, _)
SplitFrom(s, sep, i, cur) ==
    IF i > Len(s) THEN <<cur>>
    ELSE IF s[i] = sep THEN <<cur>> \o SplitFrom(s, sep, i + 1, <<>>)
    ELSE SplitFrom(s, sep, i + 1, Append(cur, s[i]))

Split(s, sep) == SplitFrom(s, sep, 1, <<>>)

DigitVal(c) == (CHOOSE i \in 1..10 : DigitChars[i] = c) - 1
IsDigit(c) == \E i \in 1..10 : DigitChars[i] = c

RECURSIVE DigitsVal(_)
DigitsVal(s) ==
    IF s = <<>> THEN 0
    ELSE 10 * DigitsVal(SubSeq(s, 1, Len(s) - 1)) + DigitVal(s[Len(s)])

\* int(str): surrounding whitespace ignored, optional sign, decimal digits;
\* anything else is a ValueError
PyInt(s) ==
    LET t == Strip(s)
        signed == t # <<>> /\ Head(t) \in {"-", "+"}
        d == IF signed THEN Tail(t) ELSE t
    IN  IF d # <<>> /\ \A i \in 1..Len(d) : IsDigit(d[i])
        THEN [ok |-> TRUE,
              v |-> IF signed /\ Head(t) = "-" THEN 0 - DigitsVal(d) ELSE DigitsVal(d)]
        ELSE [ok |-> FALSE, v |-> 0]

RECURSIVE NatStr(_)
NatStr(n) ==
    IF n < 10 THEN <<DigitChars[n + 1]>>
    ELSE NatStr(n \div 10) \o <<DigitChars[(n % 10) + 1]>>

\* '%d' (and '%.1d') of an integer
IntStr(n) == IF n < 0 THEN <<"-">> \o NatStr(0 - n) ELSE NatStr(n)

(* ----------------------- the device's lines ---------------------------- *)
LineOk == <<"o","k","\n">>
Line3 == <<"3","\n">>
Line9 == <<"9","\n">>
LineBlank == <<"\n">>
LineShtdn == <<",","0",",","0",",","0",",","1",".","0",",","2","5",",","2","5",",","2","5",",","2","5",",","8","5","0","\n">>
LineReady == <<",","3",",","1","2","0",",","3","0",",","1",".","0",",","2","5",",","2","5",",","2","5",",","2","5",",","8","5","0","\n">>

\* lines the pump may put on the serial line
DevLines == {LineOk, Line3, Line9, LineBlank, LineShtdn, LineReady}

\* what arrives in answer to one command: nothing, one line, or two
Replies ==
    {<<>>} \cup {<<a>> : a \in DevLines} \cup {<<a, b>> : a \in DevLines, b \in DevLines}

(* --------------------------- the transport ----------------------------- *)
\* serial.Serial.readline with a timeout: the next buffered line, or the
\* empty string when none arrived in time
ReadLine(buf) ==
    IF buf = <<>> THEN [line |-> <<>>, rest |-> <<>>]
    ELSE [line |-> Head(buf), rest |-> Tail(buf)]

(* ------------------------------ cmd ------------------------------------ *)
\* the exception class raised for response '3'
ParamErrorClass == "BadCmd"

\* the exemption with one of the two codes forgotten
TelemetryCodes_OnlyA == {"a"}

\* the command codes for which '3' is data
TelemetryCodes == {"a", "c"}

\* the second read left out
NeedsSecondRead_Never(t1) == FALSE

\* cmd line 184: the first line, trimmed, is empty, so a second is read
NeedsSecondRead(t1) == t1 = <<>>

\* a _flush that reads nothing
Flush_Nothing(buf) == buf

\* _flush: everything waiting in the input buffer is read and printed
Flush(buf) == <<>>

\* LC200Q.cmd(cmd, data): buf is the input buffer once the device's reply
\* has arrived.  Result: the line written, the exception raised ("" when it
\* returns), the returned text, the first line read, the buffer left, the
\* reads done and whether _flush ran.
Cmd(c, data, buf) ==
    LET sent == <<c>> \o data \o EOL
        r1 == ReadLine(buf)
        t1 == Strip(r1.line)
        second == NeedsSecondRead(t1)
        r2 == IF second THEN ReadLine(r1.rest) ELSE r1
        tmp == IF second THEN Strip(r2.line) ELSE t1
        exc == IF tmp = <<"9">> THEN "BadCmd"
               ELSE IF tmp = <<"3">> /\ c \notin TelemetryCodes THEN ParamErrorClass
               ELSE ""
    IN  [sent |-> sent,
         exc |-> exc,
         ret |-> IF exc = "" THEN <<c, ":", " ">> \o tmp \o <<"\n">> ELSE <<>>,
         tmp |-> tmp,
         first |-> r1.line,
         unread |-> r2.rest,
         buf |-> IF exc = "" THEN r2.rest ELSE Flush(r2.rest),
         reads |-> IF second THEN 2 ELSE 1,
         flushed |-> exc # ""]

(* --------------------------- status parsers ---------------------------- *)
\* LC200Q.status(status_type) applied to the text cmd('e') returned
StatusField(ret, status_type) ==
    LET s == Split(RStrip(ret), ",")
    IN  IF status_type + 1 <= Len(s)
        THEN [exc |-> "", v |-> s[status_type + 1]]
        ELSE [exc |-> "IndexError", v |-> <<>>]

\* LC200Q.state() applied to the text cmd('e') returned
StateOf(ret) ==
    LET f == StatusField(ret, 1)
        n == PyInt(f.v)
    IN  IF f.exc # "" THEN [exc |-> f.exc, v |-> 0]
        ELSE IF ~n.ok THEN [exc |-> "ValueError", v |-> 0]
        ELSE [exc |-> "", v |-> n.v]

\* LC200Q.pressure() applied to the text cmd('e') returned
PressureOf(ret) ==
    LET f == StatusField(ret, 9)
        n == PyInt(f.v)
    IN  IF f.exc # "" THEN [exc |-> f.exc, v |-> 0]
        ELSE IF ~n.ok THEN [exc |-> "ValueError", v |-> 0]
        ELSE [exc |-> "", v |-> n.v]

(* ---------------------- values and the constructor --------------------- *)
\* Python numbers carry their type and their value in hundredths
IntV(n) == [type |-> "int", v |-> 100 * n]
FloatV(h) == [type |-> "float", v |-> h]
TupleV(items) == [type |-> "tuple", items |-> items]
IsNum(x) == x.type \in {"int", "float"}
\* the Python builtins min and max: functions, not numbers
BuiltinFn == [type |-> "builtin_function_or_method", v |-> 0]

\* arguments the constructor is tried with
CtorMin == {0}
CtorMax == {300}
CtorRdy == {999}

\* LC200Q.__init__(ser, min_pressure, max_pressure, rdy): the three fields
Construct(min_pressure, max_pressure, r) ==
    [minPressure |-> BuiltinFn, maxPressure |-> BuiltinFn, rdy |-> IntV(r)]

(* --------------------------- method records ---------------------------- *)
MaxMethodSteps == 10

Filler == <<"A",",","0",".","0",",","0",".","0","1",",","0",".","0",",","0",".","0",",","0",".","0",",","1","0","0",".","0",",","0">>
StepOne == <<"A",",","1",".","0",",","0",".","5","0",",","1","0","0",",","0",",","0",",","0",",","0">>
StepTwo == <<"A",",","2",".","0",",","0",".","5","0",",","0",",","1","0","0",",","0",",","0",",","1","0">>

\* the caller's step list of length n
StepList(n) == [i \in 1..n |-> IF i % 2 = 1 THEN StepOne ELSE StepTwo]

\* one conversion of the % operator: '%.2f', '%s' or '%d' of a value
Trunc(h) == IF h < 0 THEN 0 - ((0 - h) \div 100) ELSE h \div 100
Frac2(h) == LET f == (IF h < 0 THEN 0 - h ELSE h) % 100
            IN  <<DigitChars[(f \div 10) + 1], DigitChars[(f % 10) + 1]>>
Sign(h) == IF h < 0 THEN <<"-">> ELSE <<>>
Whole(h) == NatStr((IF h < 0 THEN 0 - h ELSE h) \div 100)

\* str() of a float: the shortest digits, never fewer than one decimal
FloatStr(h) ==
    LET f == Frac2(h)
    IN  Sign(h) \o Whole(h) \o <<".">> \o (IF f[2] = "0" THEN <<f[1]>> ELSE f)

\* %.1f: one decimal, a tie going to the even digit
Fixed1(h) ==
    LET a == IF h < 0 THEN 0 - h ELSE h
        down == a \div 10
        tenths == IF a % 10 > 5 \/ (a % 10 = 5 /\ down % 2 = 1) THEN down + 1 ELSE down
    IN  Sign(h) \o NatStr(tenths \div 10) \o <<".", DigitChars[(tenths % 10) + 1]>>

Convert(spec, x) ==
    IF spec = "s"
    THEN [exc |-> "", v |-> IF x.type = "int" THEN IntStr(Trunc(x.v))
                            ELSE IF x.type = "float" THEN FloatStr(x.v)
                            ELSE <<"<", x.type, ">">>]
    ELSE IF ~IsNum(x) THEN [exc |-> "TypeError", v |-> <<>>]
    ELSE IF spec = "d" THEN [exc |-> "", v |-> IntStr(Trunc(x.v))]
    ELSE IF spec = "f1" THEN [exc |-> "", v |-> Fixed1(x.v)]
    ELSE [exc |-> "", v |-> Sign(x.v) \o Whole(x.v) \o <<".">> \o Frac2(x.v)]

Lit(text) == [kind |-> "lit", text |-> text]
Spec_f == [kind |-> "f", text |-> <<>>]
Spec_s == [kind |-> "s", text |-> <<>>]
Spec_d == [kind |-> "d", text |-> <<>>]
Spec_f1 == [kind |-> "f1", text |-> <<>>]

\* template % args: TypeError when an argument is missing, left over, or of
\* a type the conversion rejects
RECURSIVE PyFormat(_, _)
PyFormat(template, args) ==
    IF template = <<>>
    THEN IF args = <<>> THEN [exc |-> "", v |-> <<>>] ELSE [exc |-> "TypeError", v |-> <<>>]
    ELSE LET p == Head(template)
         IN  IF p.kind = "lit"
             THEN LET rest == PyFormat(Tail(template), args)
                  IN  IF rest.exc # "" THEN rest ELSE [exc |-> "", v |-> p.text \o rest.v]
             ELSE IF args = <<>> THEN [exc |-> "TypeError", v |-> <<>>]
             ELSE LET c == Convert(p.kind, Head(args))
                      rest == PyFormat(Tail(template), Tail(args))
                  IN  IF c.exc # "" THEN c
                      ELSE IF rest.exc # "" THEN rest
                      ELSE [exc |-> "", v |-> c.v \o rest.v]

\* 'B,%.1d,%.1d,%.1d' % (minPressure, maxPressure, rdy)
FormatB(m, M, r) ==
    PyFormat(<<Lit(<<"B", ",">>), Spec_d, Lit(<<",">>), Spec_d, Lit(<<",">>), Spec_d>>,
             <<m, M, r>>)

\* the guard with its limit off by one
TooManySteps_OffByOne(s) == Len(s) > MaxMethodSteps + 1

\* the guard of _method: more steps than a method holds
TooManySteps(s) == Len(s) > MaxMethodSteps

\* [x] * k of Python: no copies when k is negative
Repeat(x, k) == [i \in 1..k |-> x]

\* _method lines 153-158: cmd_list is the caller's list itself, extended in
\* place by the filler and then by the limit record; steps is what the
\* caller's list holds afterwards, cmd_list what the pass will send
BuildCmdList(s, m, M, r) ==
    LET padded == s \o Repeat(Filler, MaxMethodSteps - Len(s))
        b == FormatB(m, M, r)
    IN  IF b.exc # ""
        THEN [exc |-> b.exc, steps |-> padded, cmd_list |-> padded]
        ELSE [exc |-> "", steps |-> Append(padded, b.v), cmd_list |-> Append(padded, b.v)]

\* the first two closing commands in the other order
TailCmds_Swapped == <<"l", "t", "H">>

\* the three commands that close an upload
TailCmds == <<"t", "l", "H">>

\* the retry flag handed to the recursive call
RetryArg == FALSE

(* ------------------------------- state --------------------------------- *)
VARIABLES
    wire,       \* what the current operation has written to the serial line
    inbuf,      \* lines received and not yet read
    lastCmd,    \* self.lastCmd
    fields,     \* self.minPressure, self.maxPressure, self.rdy
    ctor,       \* the arguments the constructor was called with
    steps,      \* the list object the caller passed as steps
    given,      \* the contents of that list when the caller passed it
    stack,      \* the active _method calls, innermost last
    pc,         \* position in the current operation
    op,         \* the operation the caller invoked
    arg,        \* its arguments and, once a pure operation returned, its result
    outcome,    \* how the last operation ended: "" running, "ok" or the exception
    lastRes,    \* the last cmd call outside an upload or a reset
    heard       \* per line of wire, the kind of answer cmd read: "3", "9", "other"

vars == <<wire, inbuf, lastCmd, fields, ctor, steps, given, stack, pc, op, arg,
          outcome, lastRes, heard>>

\* how cmd classifies a trimmed response
Kind(tmp) == IF tmp = <<"3">> THEN "3" ELSE IF tmp = <<"9">> THEN "9" ELSE "other"

NoRes == [code |-> "", exc |-> "", ret |-> <<>>, tmp |-> <<>>, first |-> <<>>,
          reads |-> 0, flushed |-> FALSE, unread |-> <<>>]
NoArg == [seize |-> FALSE, code |-> "", t |-> IntV(0), rate |-> IntV(0),
          initial |-> <<>>, final |-> <<>>, curve |-> IntV(0), n |-> 0,
          result |-> <<>>]

Init ==
    /\ \E m \in CtorMin, M \in CtorMax, r \in CtorRdy :
          /\ ctor = [min_pressure |-> m, max_pressure |-> M, rdy |-> r]
          /\ fields = Construct(m, M, r)
    /\ wire = <<>>
    /\ inbuf = <<>>
    /\ lastCmd = <<>>
    /\ steps = <<>>
    /\ given = <<>>
    /\ stack = <<>>
    /\ pc = "idle"
    /\ op = ""
    /\ arg = NoArg
    /\ outcome = ""
    /\ lastRes = NoRes
    /\ heard = <<>>

(* -------------------------- shared step pieces ------------------------- *)
\* the device's reply to the command arrives behind what is still buffered
Arrived(reply) == inbuf \o reply

\* what one cmd call leaves behind in the controller and on the line; the
\* observer keeps the result of the calls made outside an upload or a reset
CmdEffects(c, r, observed) ==
    /\ wire' = Append(wire, r.sent)
    /\ lastCmd' = r.sent
    /\ inbuf' = r.buf
    /\ heard' = Append(heard, Kind(r.tmp))
    /\ lastRes' = IF observed
                  THEN [code |-> c, exc |-> r.exc, ret |-> r.ret, tmp |-> r.tmp,
                        first |-> r.first, reads |-> r.reads, flushed |-> r.flushed, unread |-> r.unread]
                  ELSE lastRes

\* an exception leaves every active call
Raise(e) ==
    /\ pc' = "idle"
    /\ outcome' = e
    /\ stack' = <<>>

\* a new operation begins on a quiet controller
Begin(name, a, at) ==
    /\ pc = "idle"
    /\ op' = name
    /\ arg' = a
    /\ pc' = at
    /\ outcome' = ""
    /\ wire' = <<>>
    /\ heard' = <<>>
    /\ lastRes' = NoRes
    /\ UNCHANGED <<inbuf, lastCmd, fields, ctor>>

\* an operation that is handed no step list
NoList == steps' = <<>> /\ given' = <<>> /\ UNCHANGED stack

Top == stack[Len(stack)]
SetTop(f) == [stack EXCEPT ![Len(stack)] = f]
Frame(retry) == [retry |-> retry, idx |-> 1, caught |-> "", cmd_list |-> <<>>]

(* ------------------------ single-command operations ------------------- *)
\* inject, stop, seize, release, advance, resume, restart, quit, info, hold,
\* and cmd itself called with a telemetry code
ControlCodes == {"j", "s", "P", "r", "K", "J", "H", "Q", "I", "k", "a", "c"}

CallControl(c) ==
    /\ Begin("control", [NoArg EXCEPT !.code = c], "ctl")
    /\ NoList

\* the one cmd call of a single-command operation (also the closing
\* cmd('j') of gradient)
ControlSend ==
    /\ pc = "ctl"
    /\ \E reply \in Replies :
          /\ Len(Arrived(reply)) <= MaxBuf
          /\ LET r == Cmd(arg.code, <<>>, Arrived(reply))
             IN  /\ CmdEffects(arg.code, r, TRUE)
                 /\ Raise(IF r.exc = "" THEN "ok" ELSE r.exc)
    /\ UNCHANGED <<fields, ctor, steps, given, op, arg>>

\* the caller assigns numbers to the public attributes minPressure and
\* maxPressure of the controller
SetLimits(m, M) ==
    /\ pc = "idle"
    /\ fields' = [fields EXCEPT !.minPressure = IntV(m), !.maxPressure = IntV(M)]
    /\ UNCHANGED <<wire, inbuf, lastCmd, ctor, steps, given, stack, pc, op, arg,
                   outcome, lastRes, heard>>

(* ------------------------------- reset --------------------------------- *)
CallReset(seize) ==
    /\ Begin("reset", [NoArg EXCEPT !.seize = seize], "r_break")
    /\ NoList

\* reset lines 228-229: three bare terminators, then flushInput
ResetBreak ==
    /\ pc = "r_break"
    /\ wire' = Append(wire, <<"\n", "\n", "\n">>)
    /\ heard' = Append(heard, "none")
    /\ inbuf' = <<>>
    /\ pc' = "r_release"
    /\ UNCHANGED <<lastCmd, fields, ctor, steps, given, stack, op, arg, outcome, lastRes>>

\* where reset returns to: the except clause of _method, or the caller
AfterReset ==
    IF stack = <<>>
    THEN Raise("ok")
    ELSE pc' = "m_retry" /\ UNCHANGED <<outcome, stack>>

\* the except clause with its raise left out
ResetReraises_Swallowed == FALSE

\* reset line 239: the except clause of reset raises the error again
ResetReraises == TRUE

ResetCmd(c, next) ==
    /\ \E reply \in Replies :
          /\ Len(Arrived(reply)) <= MaxBuf
          /\ LET r == Cmd(c, <<>>, Arrived(reply))
             IN  /\ CmdEffects(c, r, FALSE)
                 /\ IF r.exc # "" THEN IF ResetReraises THEN Raise(r.exc) ELSE AfterReset
                    ELSE IF next = "return" THEN AfterReset
                    ELSE pc' = next /\ UNCHANGED <<outcome, stack>>
    /\ UNCHANGED <<fields, ctor, steps, given, op, arg>>

\* the seize argument of the reset in progress: the caller's, or the
\* default when _method calls it
ResetSeizes == IF stack = <<>> THEN arg.seize ELSE FALSE

\* reset line 231: cmd('r')
ResetRelease ==
    /\ pc = "r_release"
    /\ ResetCmd("r", IF ResetSeizes THEN "r_seize" ELSE "r_halt")

\* reset lines 232-233: cmd('P') when seize is set
ResetSeize ==
    /\ pc = "r_seize"
    /\ ResetCmd("P", "r_halt")

\* reset line 234: cmd('H')
ResetHalt ==
    /\ pc = "r_halt"
    /\ ResetCmd("H", "return")

(* ------------------------------ _method -------------------------------- *)
\* the caller uploads a list of n step records
CallMethod(n) ==
    /\ Begin("_method", NoArg, "m_enter")
    /\ steps' = StepList(n)
    /\ given' = StepList(n)
    /\ stack' = <<Frame(TRUE)>>

\* _method lines 149-158: the step-count check, the padding and the limit
\* record; nothing is sent yet
MethodEnter ==
    /\ pc = "m_enter"
    /\ IF TooManySteps(steps)
       THEN Raise("MethodError") /\ UNCHANGED steps
       ELSE LET b == BuildCmdList(steps, fields.minPressure, fields.maxPressure,
                                  fields.rdy)
            IN  /\ steps' = b.steps
                /\ IF b.exc # ""
                   THEN Raise(b.exc)
                   ELSE /\ stack' = SetTop([Top EXCEPT !.cmd_list = b.cmd_list])
                        /\ pc' = "m_seize"
                        /\ UNCHANGED outcome
    /\ UNCHANGED <<wire, inbuf, lastCmd, fields, ctor, given, op, arg, lastRes, heard>>

\* line 161: cmd('P'), outside the try
MethodSeize ==
    /\ pc = "m_seize"
    /\ \E reply \in Replies :
          /\ Len(Arrived(reply)) <= MaxBuf
          /\ LET r == Cmd("P", <<>>, Arrived(reply))
             IN  /\ CmdEffects("P", r, FALSE)
                 /\ IF r.exc # "" THEN Raise(r.exc)
                    ELSE pc' = "m_send" /\ UNCHANGED <<outcome, stack>>
    /\ UNCHANGED <<fields, ctor, steps, given, op, arg>>

\* lines 162-167: cmd(i[0], i[1:]) for the next record of cmd_list; a BadCmd
\* or BadParam is caught and answered with reset()
MethodSend ==
    /\ pc = "m_send"
    /\ \E reply \in Replies :
          /\ Len(Arrived(reply)) <= MaxBuf
          /\ LET i == Top.cmd_list[Top.idx]
                 r == Cmd(Head(i), Tail(i), Arrived(reply))
             IN  /\ CmdEffects(Head(i), r, FALSE)
                 /\ IF r.exc \in {"BadCmd", "BadParam"}
                    THEN /\ stack' = SetTop([Top EXCEPT !.caught = r.exc])
                         /\ pc' = "r_break"
                    ELSE IF Top.idx < Len(Top.cmd_list)
                    THEN /\ stack' = SetTop([Top EXCEPT !.idx = Top.idx + 1])
                         /\ pc' = "m_send"
                    ELSE /\ stack' = SetTop([Top EXCEPT !.idx = 1])
                         /\ pc' = "m_tail"
    /\ UNCHANGED <<fields, ctor, steps, given, op, arg, outcome>>

\* a retry written as "send it all again", whatever the retry flag says
MethodRetry_Again ==
    /\ pc = "m_retry"
    /\ stack' = SetTop([Top EXCEPT !.idx = 1])
    /\ pc' = "m_seize"
    /\ UNCHANGED <<wire, inbuf, lastCmd, fields, ctor, steps, given, op, arg, lastRes,
                   heard, outcome>>

\* lines 168-171, after reset returned: the first attempt calls _method
\* again on the same list, the retry re-raises what it caught
MethodRetry ==
    /\ pc = "m_retry"
    /\ IF Top.retry
       THEN /\ stack' = Append(stack, Frame(RetryArg))
            /\ pc' = "m_enter"
            /\ UNCHANGED outcome
       ELSE Raise(Top.caught)
    /\ UNCHANGED <<wire, inbuf, lastCmd, fields, ctor, steps, given, op, arg, lastRes,
                   heard>>

\* where _method returns to: its own except clause (then on to line 172),
\* flow or gradient (then on to start), or the caller
AfterMethod ==
    IF Len(stack) > 1
    THEN /\ stack' = [i \in 1..(Len(stack) - 1) |->
                         IF i = Len(stack) - 1 THEN [stack[i] EXCEPT !.idx = 1]
                         ELSE stack[i]]
         /\ pc' = "m_tail"
         /\ UNCHANGED outcome
    ELSE IF op \in {"flow", "gradient"}
    THEN /\ stack' = <<>>
         /\ pc' = "s_state"
         /\ UNCHANGED outcome
    ELSE Raise("ok")

\* lines 172-175: cmd('t'), cmd('l'), cmd('H'), return
MethodTail ==
    /\ pc = "m_tail"
    /\ \E reply \in Replies :
          /\ Len(Arrived(reply)) <= MaxBuf
          /\ LET c == TailCmds[Top.idx]
                 r == Cmd(c, <<>>, Arrived(reply))
             IN  /\ CmdEffects(c, r, FALSE)
                 /\ IF r.exc # "" THEN Raise(r.exc)
                    ELSE IF Top.idx < Len(TailCmds)
                    THEN /\ stack' = SetTop([Top EXCEPT !.idx = Top.idx + 1])
                         /\ pc' = "m_tail"
                         /\ UNCHANGED outcome
                    ELSE AfterMethod
    /\ UNCHANGED <<fields, ctor, steps, given, op, arg>>

(* ------------------------------- start --------------------------------- *)
CallStart ==
    /\ Begin("start", NoArg, "s_state")
    /\ NoList

\* where start returns to: gradient (then on to cmd('j')), or the caller
AfterStart ==
    IF op = "gradient"
    THEN /\ pc' = "ctl"
         /\ arg' = [arg EXCEPT !.code = "j"]
         /\ UNCHANGED <<outcome, stack>>
    ELSE Raise("ok") /\ UNCHANGED arg

\* start without its test of the state code
StartGuard_Always(st) == TRUE

\* the condition of start: self.state() is 0
StartGuard(st) == st = 0

\* start line 246: the status query and the test of its state code
StartState ==
    /\ pc = "s_state"
    /\ \E reply \in Replies :
          /\ Len(Arrived(reply)) <= MaxBuf
          /\ LET r == Cmd("e", <<>>, Arrived(reply))
                 st == StateOf(r.ret)
             IN  /\ CmdEffects("e", r, TRUE)
                 /\ IF r.exc # "" THEN Raise(r.exc) /\ UNCHANGED arg
                    ELSE IF st.exc # "" THEN Raise(st.exc) /\ UNCHANGED arg
                    ELSE IF StartGuard(st.v)
                    THEN pc' = "s_send" /\ UNCHANGED <<outcome, stack, arg>>
                    ELSE AfterStart
    /\ UNCHANGED <<fields, ctor, steps, given, op>>

\* start line 247: cmd('S')
StartSend ==
    /\ pc = "s_send"
    /\ \E reply \in Replies :
          /\ Len(Arrived(reply)) <= MaxBuf
          /\ LET r == Cmd("S", <<>>, Arrived(reply))
             IN  /\ CmdEffects("S", r, TRUE)
                 /\ IF r.exc # "" THEN Raise(r.exc) /\ UNCHANGED arg
                    ELSE AfterStart
    /\ UNCHANGED <<fields, ctor, steps, given, op>>

(* ------------------------- state and pressure -------------------------- *)
\* the caller asks for state() or pressure()
CallQuery(what) ==
    /\ Begin("query", [NoArg EXCEPT !.code = what], "q_send")
    /\ NoList

\* state lines 204-205 and pressure line 199: status(1), status(9), int()
QuerySend ==
    /\ pc = "q_send"
    /\ \E reply \in Replies :
          /\ Len(Arrived(reply)) <= MaxBuf
          /\ LET r == Cmd("e", <<>>, Arrived(reply))
                 v == IF arg.code = "state" THEN StateOf(r.ret) ELSE PressureOf(r.ret)
             IN  /\ CmdEffects("e", r, TRUE)
                 /\ Raise(IF r.exc # "" THEN r.exc ELSE IF v.exc # "" THEN v.exc ELSE "ok")
    /\ UNCHANGED <<fields, ctor, steps, given, op, arg>>

(* --------------------------- flow and gradient ------------------------- *)
\* a + b of Python for a tuple b: only a tuple can be added to a tuple
PyAddTuple(a, b) ==
    IF a.type = "tuple" THEN [exc |-> "", v |-> a.items \o b]
    ELSE [exc |-> "TypeError", v |-> <<>>]

A_ == <<"A", ",">>
Comma == Lit(<<",">>)
FourS == <<Spec_s, Comma, Spec_s, Comma, Spec_s, Comma, Spec_s>>

\* 'A,1.0,%.2f,%s,%s,%s,%s,0'
HoldTemplate == <<Lit(A_ \o <<"1", ".", "0", ",">>), Spec_f, Comma>> \o FourS
                    \o <<Lit(<<",", "0">>)>>
\* 'A,%.2f,%.2f,%s,%s,%s,%s,%d'
RampTemplate == <<Lit(A_), Spec_f, Comma, Spec_f, Comma>> \o FourS \o <<Comma, Spec_d>>
\* 'A,999,%.2f,%s,%s,%s,%s,0'
FinalTemplate == <<Lit(A_ \o <<"9", "9", "9", ",">>), Spec_f, Comma>> \o FourS
                    \o <<Lit(<<",", "0">>)>>

\* flow lines 124-125: the one-step list, or the exception
FlowSteps(rate, abcd) ==
    LET args == PyAddTuple(rate, abcd)
        one == PyFormat(HoldTemplate, args.v)
    IN  IF args.exc # "" THEN [exc |-> args.exc, steps |-> <<>>]
        ELSE IF one.exc # "" THEN [exc |-> one.exc, steps |-> <<>>]
        ELSE [exc |-> "", steps |-> <<one.v>>]

\* gradient line 132
ClampCurve(curve) ==
    IF curve.v < 100 THEN IntV(1) ELSE IF curve.v > 900 THEN IntV(9) ELSE curve

\* 10 * curve
TenTimes(x) == [type |-> x.type, v |-> 10 * x.v]

\* gradient lines 135-140: the three-step list, or the exception
GradientSteps(t, rate, initial, final, curve) ==
    LET c1_args == PyAddTuple(rate, initial)
        s1 == PyFormat(HoldTemplate, c1_args.v)
        c2_args == <<t, rate>> \o final \o <<TenTimes(ClampCurve(curve))>>
        s2 == PyFormat(RampTemplate, c2_args)
        c3_args == <<rate>> \o final
        s3 == PyFormat(FinalTemplate, c3_args)
    IN  IF c1_args.exc # "" THEN [exc |-> c1_args.exc, steps |-> <<>>]
        ELSE IF s1.exc # "" THEN [exc |-> s1.exc, steps |-> <<>>]
        ELSE IF s2.exc # "" THEN [exc |-> s2.exc, steps |-> <<s1.v>>]
        ELSE IF s3.exc # "" THEN [exc |-> s3.exc, steps |-> <<s1.v, s2.v>>]
        ELSE [exc |-> "", steps |-> <<s1.v, s2.v, s3.v>>]

\* the arguments flow and gradient are tried with
Rates == {FloatV(50), TupleV(<<FloatV(50)>>)}
Proportions == {<<IntV(25), IntV(25), IntV(25), IntV(25)>>,
                <<IntV(50), IntV(20), IntV(0), IntV(0)>>}
Times == {FloatV(500)}
Curves == {IntV(0), FloatV(250), IntV(12)}

\* flow and gradient hand their list to _method
EnterMethod(b) ==
    IF b.exc # ""
    THEN Raise(b.exc) /\ UNCHANGED <<steps, given>>
    ELSE /\ steps' = b.steps
         /\ given' = b.steps
         /\ stack' = <<Frame(TRUE)>>
         /\ pc' = "m_enter"
         /\ UNCHANGED outcome

CallFlow(rate, abcd) ==
    /\ Begin("flow", [NoArg EXCEPT !.rate = rate, !.initial = abcd], "f_build")
    /\ NoList

FlowBuild ==
    /\ pc = "f_build"
    /\ EnterMethod(FlowSteps(arg.rate, arg.initial))
    /\ UNCHANGED <<wire, inbuf, lastCmd, fields, ctor, op, arg, lastRes, heard>>

CallGradient(t, rate, initial, final, curve) ==
    /\ Begin("gradient", [NoArg EXCEPT !.t = t, !.rate = rate, !.initial = initial,
                                       !.final = final, !.curve = curve], "g_state")
    /\ NoList

\* the test turned around
StopGuard_Inverted(st) == st = 0

\* gradient line 133: the test that decides whether stop is called
StopGuard(st) == st # 0

\* gradient line 133: self.state() is not 0
GradientState ==
    /\ pc = "g_state"
    /\ \E reply \in Replies :
          /\ Len(Arrived(reply)) <= MaxBuf
          /\ LET r == Cmd("e", <<>>, Arrived(reply))
                 st == StateOf(r.ret)
             IN  /\ CmdEffects("e", r, TRUE)
                 /\ IF r.exc # "" THEN Raise(r.exc)
                    ELSE IF st.exc # "" THEN Raise(st.exc)
                    ELSE /\ pc' = IF StopGuard(st.v) THEN "g_stop" ELSE "g_build"
                         /\ UNCHANGED <<outcome, stack>>
    /\ UNCHANGED <<fields, ctor, steps, given, op, arg>>

\* gradient line 134: self.stop()
GradientStop ==
    /\ pc = "g_stop"
    /\ \E reply \in Replies :
          /\ Len(Arrived(reply)) <= MaxBuf
          /\ LET r == Cmd("s", <<>>, Arrived(reply))
             IN  /\ CmdEffects("s", r, TRUE)
                 /\ IF r.exc # "" THEN Raise(r.exc)
                    ELSE pc' = "g_build" /\ UNCHANGED <<outcome, stack>>
    /\ UNCHANGED <<fields, ctor, steps, given, op, arg>>

GradientBuild ==
    /\ pc = "g_build"
    /\ EnterMethod(GradientSteps(arg.t, arg.rate, arg.initial, arg.final, arg.curve))
    /\ UNCHANGED <<wire, inbuf, lastCmd, fields, ctor, op, arg, lastRes, heard>>

(* ------------------------- the step constructor ------------------------ *)
\* sum() of Python numbers: an int when every term is one
PySum(xs) ==
    [type |-> IF \A i \in 1..Len(xs) : xs[i].type = "int" THEN "int" ELSE "float",
     v |-> IF Len(xs) = 3 THEN xs[1].v + xs[2].v + xs[3].v
           ELSE xs[1].v + xs[2].v + xs[3].v + xs[4].v]

\* 100 - x
HundredMinus(x) == [type |-> x.type, v |-> 10000 - x.v]

\* 'A,%.2f,%.2f,%.1f,%.1f,%.1f,%.1f,%d'
StepTemplate == <<Lit(A_), Spec_f, Comma, Spec_f, Comma, Spec_f1, Comma, Spec_f1, Comma,
                  Spec_f1, Comma, Spec_f1, Comma, Spec_d>>

\* LC200Q._step(t, flow, A, B, C, D, curve)
Step(t, flow, A, B, C, D, curve) ==
    LET D2 == IF PySum(<<A, B, C, D>>).v # 10000 THEN HundredMinus(PySum(<<A, B, C>>))
              ELSE D
    IN  PyFormat(StepTemplate, <<t, flow, A, B, C, D2, TenTimes(curve)>>)

\* the arguments _step is tried with
StepFlows == {FloatV(50)}
StepProportions == Proportions \cup {<<IntV(60), IntV(50), IntV(0), IntV(5)>>,
                                     <<FloatV(3350), FloatV(3350), IntV(0), IntV(0)>>}
StepCurves == {IntV(1)}

\* _step reads no attribute of the controller, so what it returns does not
\* depend on what was done before: it is tried on a controller no operation
\* has been asked of yet
CallStep(t, flow, abcd, curve) ==
    /\ op = ""
    /\ Begin("_step", [NoArg EXCEPT !.t = t, !.rate = flow, !.initial = abcd,
                                    !.curve = curve], "p_step")
    /\ NoList

StepReturn ==
    /\ pc = "p_step"
    /\ LET r == Step(arg.t, arg.rate, arg.initial[1], arg.initial[2], arg.initial[3],
                     arg.initial[4], arg.curve)
       IN  /\ arg' = [arg EXCEPT !.result = r.v]
           /\ Raise(IF r.exc # "" THEN r.exc ELSE "ok")
    /\ UNCHANGED <<wire, inbuf, lastCmd, fields, ctor, steps, given, op, lastRes, heard>>

(* ---------------------------- the state names -------------------------- *)
\* the module-level dict states
States ==
    (0 :> <<"S", "H", "T", "D", "N">>) @@
    (1 :> <<>>) @@
    (2 :> <<"E", "Q", "U", "I", "L">>) @@
    (3 :> <<"R", "E", "A", "D", "Y">>) @@
    (4 :> <<"R", "U", "N", "0", "1">>) @@
    (5 :> <<"R", "U", "N", "0", "2">>) @@
    (6 :> <<"R", "U", "N", "0", "3">>) @@
    (7 :> <<"R", "U", "N", "0", "4">>) @@
    (8 :> <<"R", "U", "N", "0", "5">>) @@
    (9 :> <<"R", "U", "N", "0", "6">>) @@
    (10 :> <<"R", "U", "N", "0", "7">>) @@
    (11 :> <<"R", "U", "N", "0", "8">>) @@
    (12 :> <<"R", "U", "N", "0", "9">>) @@
    (13 :> <<"R", "U", "N", "1", "0">>) @@
    (14 :> <<"R", "U", "N", "1", "1">>) @@
    (15 :> <<"R", "U", "N", "1", "2">>) @@
    (16 :> <<"R", "U", "N", "1", "3">>) @@
    (17 :> <<"R", "U", "N", "1", "4">>) @@
    (18 :> <<"R", "U", "N", "1", "5">>) @@
    (19 :> <<"R", "U", "N", "1", "6">>) @@
    (20 :> <<"R", "U", "N", "1", "7">>) @@
    (21 :> <<"R", "U", "N", "1", "8">>) @@
    (22 :> <<"R", "U", "N", "1", "9">>) @@
    (24 :> <<"H", "L", "D">>)

\* states[code]: a key the dict does not hold raises KeyError
StateName(code) ==
    IF code \in DOMAIN States THEN [exc |-> "", v |-> States[code]]
    ELSE [exc |-> "KeyError", v |-> <<>>]

\* the state codes the lookup is tried with
StateCodes == 0..24

\* the table is module-level: the lookup is tried before any operation
CallLookup(code) ==
    /\ op = ""
    /\ Begin("states", [NoArg EXCEPT !.n = code], "l_get")
    /\ NoList

LookupGet ==
    /\ pc = "l_get"
    /\ LET r == StateName(arg.n)
       IN  /\ arg' = [arg EXCEPT !.result = r.v]
           /\ Raise(IF r.exc # "" THEN r.exc ELSE "ok")
    /\ UNCHANGED <<wire, inbuf, lastCmd, fields, ctor, steps, given, op, lastRes, heard>>

(* --------------------------- the state machine ------------------------- *)
Next ==
    \/ \E c \in ControlCodes : CallControl(c)
    \/ ControlSend
    \/ \E m \in CtorMin, M \in CtorMax : SetLimits(m, M)
    \/ \E seize \in BOOLEAN : CallReset(seize)
    \/ ResetBreak
    \/ ResetRelease
    \/ ResetSeize
    \/ ResetHalt
    \/ \E n \in 0..MaxSteps : CallMethod(n)
    \/ MethodEnter
    \/ MethodSeize
    \/ MethodSend
    \/ MethodRetry
    \/ MethodTail
    \/ \E what \in {"state", "pressure"} : CallQuery(what)
    \/ QuerySend
    \/ CallStart
    \/ StartState
    \/ StartSend
    \/ \E rate \in Rates, abcd \in Proportions : CallFlow(rate, abcd)
    \/ FlowBuild
    \/ \E t \in Times, rate \in Rates, initial \in Proportions, final \in Proportions,
          curve \in Curves : CallGradient(t, rate, initial, final, curve)
    \/ GradientState
    \/ GradientStop
    \/ GradientBuild
    \/ \E t \in Times, flow \in StepFlows, abcd \in StepProportions, curve \in StepCurves :
          CallStep(t, flow, abcd, curve)
    \/ StepReturn
    \/ \E code \in StateCodes : CallLookup(code)
    \/ LookupGet

Spec == Init /\ [][Next]_vars

TypeOK ==
    /\ pc \in {"idle", "ctl", "r_break", "r_release", "r_seize", "r_halt", "m_enter",
               "m_seize", "m_send", "m_retry", "m_tail", "s_state", "s_send", "q_send",
               "f_build", "g_state", "g_stop", "g_build", "p_step", "l_get"}
    /\ Len(inbuf) <= MaxBuf
    /\ Len(stack) <= 2


(* ======================= what the claims speak of ====================== *)
\* the position in wire of the lines written with command code c
Written(c) == {i \in 1..Len(wire) : wire[i][1] = c}
CodeCount(c) == Cardinality(Written(c))
\* the lines of wire whose answer cmd took for an error
Rejections == {i \in 1..Len(heard) : heard[i] \in {"3", "9"}}
\* the three bare terminators reset writes
BreakLine == <<"\n", "\n", "\n">>
Breaks == {i \in 1..Len(wire) : wire[i] = BreakLine}

UploadDone == op = "_method" /\ pc = "idle" /\ outcome # ""

\* the ten step records a method of the caller's steps list consists of
TenRecords(list) ==
    [i \in 1..MaxMethodSteps |-> IF i <= Len(list) THEN list[i] \o EOL ELSE Filler \o EOL]
\* the limit record of a controller constructed with these arguments
LimitRecord(c) ==
    <<"B", ",">> \o IntStr(c.min_pressure) \o <<",">> \o IntStr(c.max_pressure)
        \o <<",">> \o IntStr(c.rdy) \o EOL
SeizeLine == <<"P", "\n">>

(* ------------------------------- C1 ------------------------------------ *)
\* C1 (as claimed): an upload of at most 10 steps whose 3rd step record is
\* answered '9' in the first pass, and no other command is rejected, does
\* one reset and one full second pass (seize and the 11 records again) and
\* returns successfully.
C1_RetryAfterThirdRecord ==
    (UploadDone /\ Len(given) <= MaxMethodSteps /\ Len(heard) >= 4
        /\ heard[4] = "9" /\ Rejections = {4})
    => /\ outcome = "ok"
       /\ Cardinality(Breaks) = 1
       /\ CodeCount("P") = 2
       /\ CodeCount("A") = 3 + MaxMethodSteps
       /\ CodeCount("B") = 1

(* ------------------------------- C2 ------------------------------------ *)
\* C2 (as claimed): for a step list of length N <= 10 and a device that
\* never answers '3' or '9', the upload writes 'P', then the N caller steps
\* followed by 10-N filler records, then one 'B' record.
C2_TenRecordsThenLimits ==
    (UploadDone /\ Len(given) <= MaxMethodSteps /\ Rejections = {})
    => /\ Len(wire) >= MaxMethodSteps + 2
       /\ wire[1] = SeizeLine
       /\ SubSeq(wire, 2, MaxMethodSteps + 1) = TenRecords(given)
       /\ wire[MaxMethodSteps + 2][1] = "B"
       /\ CodeCount("A") = MaxMethodSteps
       /\ CodeCount("B") = 1

(* ------------------------------- C3 ------------------------------------ *)
\* C3: an upload of more than 10 steps writes nothing to the transport and
\* ends with MethodError.
C3_TooLongWritesNothing ==
    (op = "_method" /\ Len(given) > MaxMethodSteps)
    => /\ wire = <<>>
       /\ outcome \in {"", "MethodError"}
       /\ (pc = "idle" => outcome = "MethodError")

C3_Witness ==
    UploadDone /\ Len(given) = MaxMethodSteps + 1 /\ outcome = "MethodError" /\ wire = <<>>

(* ------------------------------- C4 ------------------------------------ *)
\* C4 (as claimed): an upload in which a step record was answered '3', no
\* command was answered '9' and the reset was accepted, and which ends with
\* an error, ends with BadParam (the '3' of the retry pass).
C4_SecondFailureIsBadParam ==
    (UploadDone /\ outcome # "ok" /\ Rejections # {}
        /\ (\A i \in Rejections : heard[i] = "3")
        /\ (\E i \in Rejections : wire[i][1] = "A")
        /\ Cardinality(Breaks) = 1 /\ CodeCount("r") = 1 /\ CodeCount("H") >= 1
        /\ (\A i \in Rejections : wire[i][1] \in {"A", "B"}))
    => outcome = "BadParam"

(* ------------------------------- C5 ------------------------------------ *)
\* C5: whatever the device answers, one upload seizes control at most twice,
\* sends at most two passes of the 10 step records and the limit record,
\* never nests more than one retry, and comes to an end: every step it takes
\* lowers a rank that never falls below zero.
Uploading == op \in {"_method", "flow"} /\ pc # "idle"
\* the lines two passes, one reset, the closing commands and start can write
UploadBudget == 2 * (MaxMethodSteps + 2) + 3 + 2 * Len(TailCmds) + 2
Rank ==
    3 * (UploadBudget - Len(wire))
        + (IF pc \in {"m_retry", "f_build"} THEN 2 ELSE IF pc = "m_enter" THEN 1 ELSE 0)
C5_PassBound ==
    op \in {"_method", "flow"}
    => /\ CodeCount("P") <= 2
       /\ CodeCount("A") <= 2 * MaxMethodSteps
       /\ CodeCount("B") <= 2
       /\ Len(stack) <= 2
       /\ Rank >= 0
C5_RankFalls == Uploading => Rank' < Rank
C5_BoundedRetry == [](C5_PassBound) /\ [][C5_RankFalls]_vars

\* an upload that went through reset and asked for its retry
C5_Witness ==
    UploadDone /\ Rejections # {} /\ Cardinality(Breaks) = 1 /\ CodeCount("H") = 1
        /\ CodeCount("B") = 1

(* ------------------------------- C6 ------------------------------------ *)
\* C6 (as claimed): cmd raises BadCmd for the response '9', BadParam for the
\* response '3' to a command other than 'a' and 'c', and returns for every
\* other response.
C6_ResponseClasses ==
    lastRes.code # ""
    => /\ (lastRes.tmp = <<"9">> => lastRes.exc = "BadCmd")
       /\ (lastRes.tmp = <<"3">> /\ lastRes.code \notin {"a", "c"}
             => lastRes.exc = "BadParam")
       /\ (lastRes.tmp # <<"9">> /\ (lastRes.tmp # <<"3">> \/ lastRes.code \in {"a", "c"})
             => lastRes.exc = "")

(* ------------------------------- C7 ------------------------------------ *)
\* C7: a '3' answered to 'a' or 'c' is data: cmd returns 'a: 3' or 'c: 3',
\* raises nothing and leaves the unread input in the buffer.
C7_TelemetryThreeIsData ==
    (lastRes.code \in {"a", "c"} /\ lastRes.tmp = <<"3">>)
    => /\ lastRes.exc = ""
       /\ outcome = "ok"
       /\ lastRes.ret = <<lastRes.code, ":", " ", "3", "\n">>
       /\ ~lastRes.flushed
       /\ inbuf = lastRes.unread

C7_Witness ==
    lastRes.code = "c" /\ lastRes.tmp = <<"3">> /\ outcome = "ok" /\ inbuf # <<>>

(* ------------------------------- C8 ------------------------------------ *)
\* C8: start writes 'S' only right after its own status query answered
\* state code 0; in every other case the status query 'e' is all it writes.
StatusLine == <<"e", "\n">>
StartLine == <<"S", "\n">>
C8_StartWrites ==
    op = "start" => wire \in {<<>>, <<StatusLine>>, <<StatusLine, StartLine>>}
C8_NoOpElsewhere ==
    (op = "start" /\ pc = "idle" /\ outcome # "" /\ lastRes.code = "e"
        /\ lastRes.exc = "" /\ StateOf(lastRes.ret).exc = ""
        /\ StateOf(lastRes.ret).v # 0)
    => wire = <<StatusLine>> /\ outcome = "ok"
C8_SendsOnlyFromShutdown ==
    (Len(wire') = Len(wire) + 1 /\ wire'[Len(wire')] = StartLine)
    => /\ wire[Len(wire)] = StatusLine
       /\ lastRes.code = "e" /\ lastRes.exc = ""
       /\ StateOf(lastRes.ret) = [exc |-> "", v |-> 0]
C8_StartOnlyFromShutdown ==
    [](C8_StartWrites /\ C8_NoOpElsewhere) /\ [][C8_SendsOnlyFromShutdown]_vars

\* start found the pump READY and did nothing more
C8_Witness ==
    op = "start" /\ pc = "idle" /\ outcome = "ok" /\ wire = <<StatusLine>>
        /\ StateOf(lastRes.ret) = [exc |-> "", v |-> 3]

(* ------------------------------- C9 ------------------------------------ *)
\* C9 (as claimed): the record an upload writes after the 10 step records is
\* 'B,m,M,r' for the m, M, r the controller was constructed with.
C9_LimitRecordFromConstructor ==
    (UploadDone /\ Len(given) <= MaxMethodSteps /\ Rejections = {})
    => /\ Len(wire) >= MaxMethodSteps + 2
       /\ wire[MaxMethodSteps + 2] = LimitRecord(ctor)

(* ------------------------------- C10 ----------------------------------- *)
\* C10 (as claimed): gradient with a numeric rate and 4-element proportions
\* hands 3 steps to the uploader, so that the 10 step records written are
\* those 3 followed by 7 filler records.
C10_GradientHandsThreeSteps ==
    (op = "gradient" /\ IsNum(arg.rate) /\ pc = "idle" /\ outcome # ""
        /\ Rejections = {} /\ outcome \notin {"IndexError", "ValueError"})
    => /\ Len(given) = 3
       /\ \E p \in Written("P") :
             /\ Len(wire) >= p + MaxMethodSteps
             /\ SubSeq(wire, p + 1, p + MaxMethodSteps) = TenRecords(given)

(* ------------------------------- C11 ----------------------------------- *)
\* a gradient call that ended without the device rejecting a command or
\* sending a status line that cannot be parsed
GradientRan ==
    op = "gradient" /\ pc = "idle" /\ outcome # "" /\ Rejections = {}
        /\ outcome \notin {"IndexError", "ValueError"}
\* the last comma-separated field of a record
LastField(record) == LET f == Split(RStrip(record), ",") IN f[Len(f)]
Tens == {NatStr(10 * k) : k \in 1..9}
\* C11 (as claimed): whatever curve gradient is given, below 1, inside
\* [1,9] (whole or not) or above 9, the ramp record it writes, the second
\* step record of the upload, carries a curve field out of 10, 20, ..., 90:
\* 10 for a curve of 0 or less and 90 for a curve of 10 or more.
C11_CurveFieldIsTens ==
    GradientRan
    => \E p \in Written("P") :
          /\ Len(wire) >= p + 2
          /\ LastField(wire[p + 2]) \in Tens
          /\ arg.curve.v <= 0 => LastField(wire[p + 2]) = NatStr(10)
          /\ arg.curve.v >= 1000 => LastField(wire[p + 2]) = NatStr(90)

(* ------------------------------- C12 ----------------------------------- *)
\* the value, in hundredths, of a decimal numeral with at most two decimals
DecVal(str) ==
    LET neg == str # <<>> /\ Head(str) = "-"
        parts == Split(IF neg THEN Tail(str) ELSE str, ".")
        frac == IF Len(parts) = 1 THEN <<"0", "0">>
                ELSE IF Len(parts[2]) = 1 THEN parts[2] \o <<"0">> ELSE parts[2]
        a == 100 * DigitsVal(parts[1]) + DigitsVal(frac)
    IN  IF neg THEN 0 - a ELSE a
\* the four percentages of a step record 'A,t,flow,a,b,c,d,curve'
Percentages(record) ==
    LET f == Split(RStrip(record), ",") IN [i \in 1..4 |-> DecVal(f[i + 3])]
\* the step records the encoder called last has built
Built == IF op = "_step" THEN <<arg.result>> ELSE given
\* C12 (as claimed): when _step, flow or gradient has built a step record from
\* proportions (A,B,C,D) that do not sum to 100, the record's D is
\* 100-(A+B+C) and its four percentages sum to 100.
C12_EncodersRecomputeD ==
    (op \in {"_step", "flow", "gradient"} /\ pc = "idle" /\ outcome # ""
        /\ Built # <<>> /\ Built[1] # <<>>
        /\ PySum(arg.initial).v # 10000)
    => LET pct == Percentages(Built[1])
       IN  /\ pct[4] = 10000 - PySum(SubSeq(arg.initial, 1, 3)).v
           /\ pct[1] + pct[2] + pct[3] + pct[4] = 10000

(* ------------------------------- C13 ----------------------------------- *)
\* C13: gradient writes the stop command 's' exactly when its status query
\* parsed to a state code other than 0, and then as the line right after the
\* query, ahead of every seize command and method record; after state code 0
\* it writes no 's'.
StopLine == <<"s", "\n">>
\* gradient has written its status query and nothing else yet
GradientQueried ==
    op = "gradient" /\ pc # "idle" /\ wire = <<StatusLine>>
        /\ lastRes.code = "e" /\ lastRes.exc = "" /\ StateOf(lastRes.ret).exc = ""
C13_StopPlace ==
    op = "gradient"
    => /\ Written("s") \subseteq {2}
       /\ \A i \in Written("s"), j \in Written("P") \cup Written("A") \cup Written("B") :
             i < j
C13_StopWhenRunning ==
    (GradientQueried /\ StateOf(lastRes.ret).v # 0) => wire' = <<StatusLine, StopLine>>
C13_NoStopWhenShutdown ==
    (GradientQueried /\ StateOf(lastRes.ret).v = 0) => wire' = wire
C13_StopBeforeUpload ==
    []C13_StopPlace /\ [][C13_StopWhenRunning /\ C13_NoStopWhenShutdown]_vars

\* gradient found the pump READY and sent the stop command
C13_Witness ==
    op = "gradient" /\ pc = "idle" /\ wire = <<StatusLine, StopLine>>
        /\ lastRes.code = "s" /\ lastRes.exc = ""

(* ------------------------------- C14 ----------------------------------- *)
\* the first line of wire whose answer cmd took for an error
FirstRejection == CHOOSE i \in Rejections : \A j \in Rejections : i <= j
\* C14 (as claimed): in an upload with retry allowed, when the first command
\* rejected is the seize 'P' or one of the 11 records of the first pass, a
\* reset follows at once and, the reset accepted, a second pass is started:
\* the upload does not end with that rejection.
C14_AnyRejectionRetries ==
    (UploadDone /\ Rejections # {} /\ FirstRejection <= MaxMethodSteps + 2)
    => /\ Len(wire) > FirstRejection
       /\ wire[FirstRejection + 1] = BreakLine
       /\ Cardinality(Rejections) = 1 => CodeCount("P") = 2

(* ------------------------------- C15 ----------------------------------- *)
\* C15: an upload that returns has written 't', 'l', 'H' once each, in this
\* order, as its last three lines, after the last limit record.  An upload
\* that ends with an exception has written no 't' and no 'l' after the
\* first rejected command, and no 'H' other than the one of the reset.
ReleaseLine == <<"r", "\n">>
C15_TailOnSuccess ==
    (UploadDone /\ outcome = "ok")
    => /\ Written("B") # {}
       /\ \A b \in Written("B") :
             (\A c \in Written("B") : c <= b)
             => /\ Len(wire) = b + 3
                /\ SubSeq(wire, b + 1, b + 3) = << <<"t", "\n">>, <<"l", "\n">>, <<"H", "\n">> >>
       /\ CodeCount("t") = 1 /\ CodeCount("l") = 1 /\ CodeCount("H") = 1
C15_NoTailAfterFailure ==
    (UploadDone /\ outcome # "ok")
    => IF Rejections = {}
       THEN CodeCount("t") = 0 /\ CodeCount("l") = 0 /\ CodeCount("H") = 0
       ELSE \A i \in (FirstRejection + 1)..Len(wire) :
               /\ wire[i][1] \notin {"t", "l"}
               /\ wire[i][1] = "H" => wire[i - 1] = ReleaseLine
ResetRejections == {i \in Rejections : \E b \in Breaks : i \in {b + 1, b + 2}}
\* C16: when the release 'r' or the halt 'H' of the reset an upload runs
\* after a rejected record is itself rejected, the upload ends there with
\* that error: nothing is written after the rejected reset command, so no
\* second pass is started.
C16_ResetFailureEndsUpload ==
    (op \in {"_method", "flow"} /\ ResetRejections # {})
    => /\ pc = "idle"
       /\ outcome \in {"BadCmd", "BadParam"}
       /\ ResetRejections = {Len(wire)}

\* the halt of the reset was rejected
C16_Witness ==
    UploadDone /\ ResetRejections # {} /\ wire[Len(wire)] = <<"H", "\n">>

(* ------------------------------- C17 ----------------------------------- *)
\* this step is one cmd call made outside an upload or a reset
CmdCalled == lastRes'.code # "" /\ lastRes' # lastRes
\* C17: a cmd call writes one line and reads one or two: the second exactly
\* when the first line read was empty once trimmed (blank, or nothing
\* arrived), and none after it; the lines read are taken off the front of
\* the buffer.  When both lines are empty the call returns 'cmd: ' with an
\* empty payload and raises nothing.
C17_OneWriteAtMostTwoReads ==
    CmdCalled
    => /\ wire' = Append(wire, <<lastRes'.code>> \o EOL)
       /\ lastRes'.reads \in {1, 2}
       /\ lastRes'.reads = 2 <=> Strip(lastRes'.first) = <<>>
       /\ \E reply \in Replies :
             LET before == inbuf \o reply
             IN  /\ lastRes'.first = IF before = <<>> THEN <<>> ELSE before[1]
                 /\ lastRes'.unread = SubSeq(before, lastRes'.reads + 1, Len(before))
       /\ (lastRes'.reads = 2 /\ lastRes'.tmp = <<>>)
             => /\ lastRes'.exc = ""
                /\ lastRes'.ret = <<lastRes'.code, ":", " ", "\n">>
C17_CmdReads == [][C17_OneWriteAtMostTwoReads]_vars

\* a command answered by a blank line and then nothing returned
C17_Witness ==
    op = "control" /\ outcome = "ok" /\ lastRes.reads = 2 /\ lastRes.first = LineBlank
        /\ lastRes.tmp = <<>> /\ lastRes.ret = <<lastRes.code, ":", " ", "\n">>

(* ------------------------------- C18 ----------------------------------- *)
\* this step is a cmd call, inside or outside an upload, that took the
\* answer for an error
CmdRejected ==
    /\ Len(heard') = Len(heard) + 1
    /\ \/ heard'[Len(heard')] = "9"
       \/ heard'[Len(heard')] = "3" /\ wire'[Len(wire')][1] \notin {"a", "c"}
\* C18: a cmd call that raises for '9', or for '3' to a command other than
\* 'a' and 'c', leaves the input buffer empty, so nothing buffered before
\* the error is left for the next command to read; a cmd call that returns
\* leaves in the buffer exactly the lines it did not read.
C18_EmptiedOnError == CmdRejected => inbuf' = <<>>
C18_UntouchedOnSuccess ==
    (lastRes.code # "" /\ lastRes.exc = "") => inbuf = lastRes.unread
C18_FlushOnErrorOnly == []C18_UntouchedOnSuccess /\ [][C18_EmptiedOnError]_vars

\* an error was raised with a line still unread, and the line is gone
C18_Witness ==
    lastRes.exc # "" /\ lastRes.unread # <<>> /\ inbuf = <<>> /\ pc = "idle"

(* ------------------------------- C19 ----------------------------------- *)
RunName(k) == <<"R", "U", "N">> \o (IF k < 10 THEN <<"0">> ELSE <<>>) \o NatStr(k)
ClaimedName(code) ==
    IF code = 0 THEN <<"S", "H", "T", "D", "N">>
    ELSE IF code = 2 THEN <<"E", "Q", "U", "I", "L">>
    ELSE IF code = 3 THEN <<"R", "E", "A", "D", "Y">>
    ELSE IF code \in 4..22 THEN RunName(code - 3)
    ELSE IF code = 24 THEN <<"H", "L", "D">>
    ELSE <<>>
\* C19 (as claimed): the lookup of any state code 0..24 in states raises
\* nothing and gives SHTDN for 0, EQUIL for 2, READY for 3, RUN01..RUN19 for
\* 4..22, HLD for 24 and the empty label for 1 and for 23.
C19_EveryCodeHasAName ==
    (op = "states" /\ pc = "idle" /\ outcome # "")
    => outcome = "ok" /\ arg.result = ClaimedName(arg.n)

(* ------------------------------- C20 ----------------------------------- *)
\* C20 (as claimed): when an upload has ended, returned or raised, the list
\* the caller passed as steps holds what it held when it was passed.
C20_StepsListUntouched ==
    UploadDone => steps = given

====
